---- MODULE Spec2Model ----
(***************************************************************************)
(* CodonScope: the RNA secondary-structure predictor of src/lib/rna-utils, *)
(* the components and pages that call it, and the DNA utilities.           *)
(* One call of predictRnaStructure is a behaviour: the DP fill cell by     *)
(* cell, then the recursive traceback one call or return at a time, then   *)
(* the return of {dotBracket, pairs, mfe} or the exception that ends it.   *)
(* JavaScript strings are sequences of one-character strings; string index *)
(* p of the source is position p + 1 here.                                 *)
(*                                                                         *)
(* Spec            one call of predictRnaStructure                         *)
(* SpecHome        the main page: typing, Analyze, Load Example and the    *)
(*                 auto-analyze timer                                      *)
(* SpecLib         one call of canPair, dnaToRna or generateMountainPlot   *)
(* SpecCalls       one call of calculatePairingProbabilities or            *)
(*                 calculateRnaLayout, with the predictor call inside it   *)
(* SpecComponent   the effect of RnaStructureVisualization under changes   *)
(*                 of its sequence prop                                    *)
(* SpecDna         one call of simulateDigestion or getReverseComplement,  *)
(*                 or one render of ReadingFrameAnalysis                   *)
(***************************************************************************)
EXTENDS Integers, Sequences, FiniteSets, TLC

VARIABLES
    rna,         \* the argument of predictRnaStructure
    seq,         \* const seq = rna.toUpperCase()
    dp,          \* dp[p][q], 0-indexed matrix n x n
    traceback,   \* traceback[p][q], strings
    l,           \* loop variable of the outer fill loop
    i,           \* loop variable of the inner fill loop
    pairs,       \* the closure variable pairs
    dotBracket,  \* the closure variable dotBracket
    stack,       \* the active calls of traceStructure, outermost first
    pc,          \* "fill", "trace", "done", or the exception that ended the call
    result,      \* <<>> until the call returns, then <<the returned object>>
    fn,          \* the exported function the behaviour is a call of
    arg,         \* its arguments, when they are not the predictor's rna
    out,         \* <<>> until fn returns, then <<its value>> (fn other than the predictor)
    bases,       \* the local bases of calculateRnaLayout
    sequence,    \* the sequence prop of RnaStructureVisualization
    state,       \* its useState values
    calls,       \* the calls into rna-utils its last effect run made, in order
    pending,     \* the effect has yet to run for the current sequence
    dnaSequence,       \* Home: the text of the input
    analyzedSequence,  \* Home: the sequence the analyses are shown for
    error,             \* Home: "null" or the message shown
    timers,            \* Home: the dnaSequence each pending timeout captured
    cleanup,           \* Home: <<>> or <<the timeout the last effect run armed>>
    effectDue          \* Home: the effect has yet to run for the current dnaSequence

\* the variables of a predictRnaStructure call, and the others
predVars == <<rna, seq, dp, traceback, l, i, pairs, dotBracket, stack, pc, result>>
homeVars == <<dnaSequence, analyzedSequence, error, timers, cleanup, effectDue>>
outerVars == <<fn, arg, out, bases, sequence, state, calls, pending, homeVars>>

vars == <<predVars, outerVars>>

----------------------------------------------------------------------------
(* Bounds of the model *)

\* all strings over Alphabet up to this length are inputs
MaxLen == 5
\* all strings over LongAlphabet longer than MaxLen up to this length are inputs
LongLen == 10
\* the number of nested calls the engine's call stack holds
StackLimit == 12

\* all strings over DnaChars up to this length are arguments of dnaToRna
MaxDnaLen == 4
\* all strings over BracketChars up to this length are arguments of
\* generateMountainPlot
MaxPlotLen == 5

\* the sequence props go up to this many characters past MaxBases
MaxOver == 1

\* all strings over TypedAlphabet up to this length are typed into the input
MaxTypedLen == 5

\* up to this many enzymes are selected for a digestion
MaxEnzymes == 2
\* the sequences digested are made of up to this many pieces
MaxPieces == 2

\* all strings over OrfAlphabet up to this length are analysed for reading
\* frames
MaxOrfLen == 6

\* all strings over ComplementAlphabet up to this length are reverse
\* complemented
MaxRcLen == 3

Alphabet == {"A", "U", "G", "c", "T"}
LongAlphabet == {"G", "C"}

SeqsOfLen(S, k) == [1..k -> S]
\* the characters canPair is called on
PairChars == {"A", "U", "G", "C", "T", "N", "a", "u", "g", "c", "t", "n", "-"}
DnaChars == {"A", "T", "t", "c", "U"}
BracketChars == {"(", ")", "."}


Example == <<"G", "G", "G", "A", "A", "A", "U", "C", "C", "C">>

Inputs ==
    UNION {SeqsOfLen(Alphabet, k) : k \in 0..MaxLen}
    \cup UNION {SeqsOfLen(LongAlphabet, k) : k \in (MaxLen + 1)..LongLen}
    \cup {Example}

----------------------------------------------------------------------------
(* JavaScript values and string operations *)

\* the number NaN, kept apart from every index the model can compute
NaN == 0 - 1000

\* the result of reading a property that does not exist, as String() shows it
Undefined == <<"u", "n", "d", "e", "f", "i", "n", "e", "d">>

\* the marker of reading a property of undefined
TypeErrorMark == <<"T", "y", "p", "e", "E", "r", "r", "o", "r">>

\* a >= b on numbers: false when either is NaN
JsGe(a, b) == a # NaN /\ b # NaN /\ a >= b

\* a + d on numbers: NaN stays NaN
JsAdd(a, d) == IF a = NaN THEN NaN ELSE a + d

UpperChar(c) ==
    CASE c = "a" -> "A"
      [] c = "u" -> "U"
      [] c = "g" -> "G"
      [] c = "c" -> "C"
      [] c = "t" -> "T"
      [] c = "n" -> "N"
      [] OTHER -> c

ToUpperCase(s) == [p \in 1..Len(s) |-> UpperChar(s[p])]

\* s[p] of the source, p a 0-based index in range
CharAt(s, p) == s[p + 1]

Min2(a, b) == IF a < b THEN a ELSE b
Max2(a, b) == IF a < b THEN b ELSE a
Clamp(a, len) == IF a = NaN THEN 0 ELSE Max2(0, Min2(a, len))

\* s.substring(a, b)
Substring(s, a, b) ==
    LET x == Clamp(a, Len(s))
        y == Clamp(b, Len(s))
    IN  SubSeq(s, Min2(x, y) + 1, Max2(x, y))

\* s.substring(a)
SubstringFrom(s, a) == Substring(s, a, Len(s))

\* '.'.repeat(k)
Dots(k) == [p \in 1..k |-> "."]

Digits == <<"0", "1", "2", "3", "4", "5", "6", "7", "8", "9">>

RECURSIVE NumToString(_)
\* k.toString() for an integer k >= 0
NumToString(k) ==
    IF k < 10 THEN <<Digits[k + 1]>>
    ELSE NumToString(k \div 10) \o <<Digits[(k % 10) + 1]>>

DigitValue(c) == CHOOSE d \in 0..9 : Digits[d + 1] = c
IsDigit(c) == \E d \in 0..9 : Digits[d + 1] = c

RECURSIVE ParseDigits(_, _, _)
ParseDigits(s, p, acc) ==
    IF p > Len(s) \/ ~IsDigit(s[p]) THEN acc
    ELSE ParseDigits(s, p + 1, acc * 10 + DigitValue(s[p]))

\* parseInt(s): the leading decimal digits of s, NaN when there are none
ParseInt(s) ==
    IF Len(s) = 0 \/ ~IsDigit(s[1]) THEN NaN ELSE ParseDigits(s, 1, 0)

----------------------------------------------------------------------------
(* canPair *)

PairTable == [A |-> "U", U |-> "A", G |-> "C", C |-> "G"]

\* canPair that also accepts the wobble pair G-U
canPairWobble(a, b) ==
    LET ua == UpperChar(a)
    IN  \/ ua \in DOMAIN PairTable /\ PairTable[ua] = UpperChar(b)
        \/ <<ua, UpperChar(b)>> \in {<<"G", "U">>, <<"U", "G">>}

\* canPair comparing with b as given, not uppercased
canPairRawSecond(a, b) ==
    LET ua == UpperChar(a)
    IN  ua \in DOMAIN PairTable /\ PairTable[ua] = b

canPair(a, b) ==
    LET ua == UpperChar(a)
    IN  ua \in DOMAIN PairTable /\ PairTable[ua] = UpperChar(b)

----------------------------------------------------------------------------
(* dnaToRna and generateMountainPlot *)

\* s.replace(/c/g, d) for single characters c and d
ReplaceAll(s, c, d) == [p \in 1..Len(s) |-> IF s[p] = c THEN d ELSE s[p]]

\* dnaToRna without its second replace
dnaToRnaUpperOnly(dna) == ReplaceAll(dna, "T", "U")

dnaToRna(dna) == ReplaceAll(ReplaceAll(dna, "T", "U"), "t", "u")

RECURSIVE MountainLoop(_, _, _, _)
\* the loop of generateMountainPlot from index p on, with height and plot
\* as they stand
MountainLoop(d, p, height, plot) ==
    IF p < Len(d)
    THEN LET h == IF CharAt(d, p) = "(" THEN height + 1
                  ELSE IF CharAt(d, p) = ")" THEN height - 1
                  ELSE height
         IN  MountainLoop(d, p + 1, h, Append(plot, [x |-> p, y |-> h]))
    ELSE plot

RECURSIVE MountainLoopLagging(_, _, _, _)
\* the loop pushing the point before it updates the height
MountainLoopLagging(d, p, height, plot) ==
    IF p < Len(d)
    THEN LET h == IF CharAt(d, p) = "(" THEN height + 1
                  ELSE IF CharAt(d, p) = ")" THEN height - 1
                  ELSE height
         IN  MountainLoopLagging(d, p + 1, h, Append(plot, [x |-> p, y |-> height]))
    ELSE plot

\* generateMountainPlot pushing the point before it updates the height
generateMountainPlotLagging(d) == MountainLoopLagging(d, 0, 0, <<>>)

RECURSIVE MountainLoopInverted(_, _, _, _)
\* the loop with the two brackets exchanged
MountainLoopInverted(d, p, height, plot) ==
    IF p < Len(d)
    THEN LET h == IF CharAt(d, p) = ")" THEN height + 1
                  ELSE IF CharAt(d, p) = "(" THEN height - 1
                  ELSE height
         IN  MountainLoopInverted(d, p + 1, h, Append(plot, [x |-> p, y |-> h]))
    ELSE plot

\* generateMountainPlot with the two brackets exchanged
generateMountainPlotInverted(d) == MountainLoopInverted(d, 0, 0, <<>>)

RECURSIVE MountainLoopFloor(_, _, _, _)
\* the loop never taking the height below 0
MountainLoopFloor(d, p, height, plot) ==
    IF p < Len(d)
    THEN LET h == IF CharAt(d, p) = "(" THEN height + 1
                  ELSE IF CharAt(d, p) = ")" THEN Max2(0, height - 1)
                  ELSE height
         IN  MountainLoopFloor(d, p + 1, h, Append(plot, [x |-> p, y |-> h]))
    ELSE plot

\* generateMountainPlot never taking the height below 0
generateMountainPlotFloor(d) == MountainLoopFloor(d, 0, 0, <<>>)

generateMountainPlot(d) == MountainLoop(d, 0, 0, <<>>)

----------------------------------------------------------------------------
(* predictRnaStructure: set-up and DP fill *)

n == Len(seq)

\* the first span length the fill visits
FirstSpan == 4

\* the start of predictRnaStructure(s): seq, n, dp and traceback
Enter(s) ==
    /\ rna = s
    /\ seq = ToUpperCase(s)
    /\ dp = [p \in 0..(Len(s) - 1) |-> [q \in 0..(Len(s) - 1) |-> 0]]
    /\ traceback = [p \in 0..(Len(s) - 1) |-> [q \in 0..(Len(s) - 1) |-> <<>>]]
    /\ l = FirstSpan
    /\ i = 0
    /\ pairs = <<>>
    /\ dotBracket = <<>>
    /\ stack = <<>>
    /\ pc = "fill"
    /\ result = <<>>

\* no component is mounted
NoComponent ==
    /\ sequence = <<>>
    /\ state = <<>>
    /\ calls = <<>>
    /\ pending = FALSE

\* no page is mounted
NoHome ==
    /\ dnaSequence = <<>>
    /\ analyzedSequence = <<>>
    /\ error = "null"
    /\ timers = <<>>
    /\ cleanup = <<>>
    /\ effectDue = FALSE

Init ==
    /\ \E s \in Inputs : Enter(s)
    /\ fn = "predictRnaStructure"
    /\ arg = <<>>
    /\ out = <<>>
    /\ bases = <<>>
    /\ NoComponent
    /\ NoHome

\* Case 1: i is unpaired
Case1(p, q) == [v |-> dp[p + 1][q], tb |-> <<"L">>]

\* Case 2 replacing an earlier option of equal value
Case2NonStrict(c, p, q) ==
    IF c.v <= dp[p][q - 1] THEN [v |-> dp[p][q - 1], tb |-> <<"R">>] ELSE c

\* Case 2: j is unpaired
Case2(c, p, q) ==
    IF c.v < dp[p][q - 1] THEN [v |-> dp[p][q - 1], tb |-> <<"R">>] ELSE c

\* Case 3: i and j form a pair
Case3(c, p, q) ==
    IF canPair(CharAt(seq, p), CharAt(seq, q)) /\ q - p > 3
    THEN IF c.v < dp[p + 1][q - 1] + 1
         THEN [v |-> dp[p + 1][q - 1] + 1, tb |-> <<"P">>]
         ELSE c
    ELSE c

RECURSIVE Case4SharedSplit(_, _, _, _)
\* Case 4 with the right part starting at k instead of k + 1
Case4SharedSplit(c, p, q, k) ==
    IF k < q
    THEN Case4SharedSplit(IF c.v < dp[p][k] + dp[k][q]
                          THEN [v |-> dp[p][k] + dp[k][q], tb |-> NumToString(k)]
                          ELSE c,
                          p, q, k + 1)
    ELSE c

RECURSIVE Case4(_, _, _, _)
\* Case 4: bifurcation, the loop over k from its current value
Case4(c, p, q, k) ==
    IF k < q
    THEN Case4(IF c.v < dp[p][k] + dp[k + 1][q]
               THEN [v |-> dp[p][k] + dp[k + 1][q], tb |-> NumToString(k)]
               ELSE c,
               p, q, k + 1)
    ELSE c

\* the body of the inner loop for cell (p, q)
Cell(p, q) == Case4(Case3(Case2(Case1(p, q), p, q), p, q), p, q, p + 1)

FillCell ==
    /\ pc = "fill"
    /\ l < n
    /\ i < n - l
    /\ LET j == i + l
           c == Cell(i, j)
       IN  /\ dp' = [dp EXCEPT ![i][j] = c.v]
           /\ traceback' = [traceback EXCEPT ![i][j] = c.tb]
    /\ i' = i + 1
    /\ UNCHANGED <<rna, seq, l, pairs, dotBracket, stack, pc, result>>
    /\ UNCHANGED outerVars

NextSpan ==
    /\ pc = "fill"
    /\ l < n
    /\ ~(i < n - l)
    /\ l' = l + 1
    /\ i' = 0
    /\ UNCHANGED <<rna, seq, dp, traceback, pairs, dotBracket, stack, pc, result>>
    /\ UNCHANGED outerVars

----------------------------------------------------------------------------
(* predictRnaStructure: traceback *)

\* an activation of traceStructure(i, j); at is where it stands: "start"
\* before its body runs, otherwise the call it made and is waiting for
\* ("L", "R", "P", "K1" the first call of a bifurcation, "K2" the second);
\* k is the local const k of the bifurcation branch, read only at "K1"
Frame(p, q) == [i |-> p, j |-> q, at |-> "start", k |-> 0]

Top == stack[Len(stack)]

\* traceback[p][q] as JavaScript reads it: a row that does not exist makes
\* the read throw, a column that does not exist reads undefined
ReadTb(p, q) ==
    IF p \notin DOMAIN traceback THEN TypeErrorMark
    ELSE IF q \notin DOMAIN traceback[p] THEN Undefined
    ELSE traceback[p][q]

\* the call traceStructure(p, q) made with st as the stack of callers; a call
\* the engine's stack cannot hold throws RangeError out of predictRnaStructure
Invoke(st, p, q) ==
    IF Len(st) >= StackLimit
    THEN /\ pc' = "RangeError"
         /\ stack' = <<>>
    ELSE /\ pc' = "trace"
         /\ stack' = Append(st, Frame(p, q))

\* the stack with the running activation marked as waiting for a call
Waiting(at) == [stack EXCEPT ![Len(stack)].at = at]

\* the running activation is past the test i >= j
InBody ==
    /\ pc = "trace"
    /\ stack # <<>>
    /\ Top.at = "start"
    /\ ~JsGe(Top.i, Top.j)

\* the pair branch with the second assignment keeping the character at q
SetBracketsOffByOne(db, p, q) ==
    LET d1 == Substring(db, 0, p) \o <<"(">> \o SubstringFrom(db, p + 1)
    IN  Substring(d1, 0, q) \o <<")">> \o SubstringFrom(d1, q)

\* the pair branch with the two brackets exchanged
SetBracketsSwapped(db, p, q) ==
    LET d1 == Substring(db, 0, p) \o <<")">> \o SubstringFrom(db, p + 1)
    IN  Substring(d1, 0, q) \o <<"(">> \o SubstringFrom(d1, q + 1)

\* the two assignments to dotBracket of the pair branch
SetBrackets(db, p, q) ==
    LET d1 == Substring(db, 0, p) \o <<"(">> \o SubstringFrom(db, p + 1)
    IN  Substring(d1, 0, q) \o <<")">> \o SubstringFrom(d1, q + 1)

\* the arguments of the recursive call of each branch
ArgsL(p, q) == <<JsAdd(p, 1), q>>
ArgsR(p, q) == <<p, JsAdd(q, -1)>>
\* the pair branch recursing without moving below j
ArgsPKeepRight(p, q) == <<JsAdd(p, 1), q>>
ArgsP(p, q) == <<JsAdd(p, 1), JsAdd(q, -1)>>

\* the score taken from the sequence length instead of the pair count
MfeOfLength(ps) == (-n) * 2

\* -pairs.length * 2
Mfe(ps) == (-Len(ps)) * 2

StartTrace ==
    /\ pc = "fill"
    /\ ~(l < n)
    /\ pairs' = <<>>
    /\ dotBracket' = Dots(n)
    /\ Invoke(<<>>, 0, n - 1)
    /\ UNCHANGED <<rna, seq, dp, traceback, l, i, result>>
    /\ UNCHANGED outerVars

TraceL ==
    /\ InBody
    /\ ReadTb(Top.i, Top.j) = <<"L">>
    /\ LET a == ArgsL(Top.i, Top.j) IN Invoke(Waiting("L"), a[1], a[2])
    /\ UNCHANGED <<rna, seq, dp, traceback, l, i, pairs, dotBracket, result>>
    /\ UNCHANGED outerVars

TraceR ==
    /\ InBody
    /\ ReadTb(Top.i, Top.j) = <<"R">>
    /\ LET a == ArgsR(Top.i, Top.j) IN Invoke(Waiting("R"), a[1], a[2])
    /\ UNCHANGED <<rna, seq, dp, traceback, l, i, pairs, dotBracket, result>>
    /\ UNCHANGED outerVars

TracePair ==
    /\ InBody
    /\ ReadTb(Top.i, Top.j) = <<"P">>
    /\ dotBracket' = SetBrackets(dotBracket, Top.i, Top.j)
    /\ pairs' = Append(pairs, <<Top.i, Top.j>>)
    /\ LET a == ArgsP(Top.i, Top.j) IN Invoke(Waiting("P"), a[1], a[2])
    /\ UNCHANGED <<rna, seq, dp, traceback, l, i, result>>
    /\ UNCHANGED outerVars

\* the else branch: every other value of tb, the empty string included
TraceBifurcate ==
    /\ InBody
    /\ ReadTb(Top.i, Top.j) \notin {<<"L">>, <<"R">>, <<"P">>}
    /\ IF ReadTb(Top.i, Top.j) = TypeErrorMark
       THEN /\ pc' = "TypeError"
            /\ stack' = <<>>
       ELSE LET k == ParseInt(ReadTb(Top.i, Top.j))
            IN  Invoke([stack EXCEPT ![Len(stack)].at = "K1",
                                     ![Len(stack)].k = k],
                       Top.i, k)
    /\ UNCHANGED <<rna, seq, dp, traceback, l, i, pairs, dotBracket, result>>
    /\ UNCHANGED outerVars

\* the running activation returns: at its base case, or after the last call
\* of its branch came back; a caller in the bifurcation branch goes on to its
\* second call
TraceReturn ==
    /\ pc = "trace"
    /\ stack # <<>>
    /\ \/ Top.at = "start" /\ JsGe(Top.i, Top.j)
       \/ Top.at \in {"L", "R", "P", "K2"}
    /\ LET rest == SubSeq(stack, 1, Len(stack) - 1)
       IN  IF rest # <<>> /\ rest[Len(rest)].at = "K1"
           THEN Invoke([rest EXCEPT ![Len(rest)].at = "K2"],
                       JsAdd(rest[Len(rest)].k, 1), rest[Len(rest)].j)
           ELSE /\ stack' = rest
                /\ pc' = pc
    /\ UNCHANGED <<rna, seq, dp, traceback, l, i, pairs, dotBracket, result>>
    /\ UNCHANGED outerVars

\* traceStructure(0, n-1) came back: compute mfe and return
Return ==
    /\ pc = "trace"
    /\ stack = <<>>
    /\ result' = <<[dotBracket |-> dotBracket, pairs |-> pairs, mfe |-> Mfe(pairs)]>>
    /\ pc' = "done"
    /\ UNCHANGED <<rna, seq, dp, traceback, l, i, pairs, dotBracket, stack>>
    /\ UNCHANGED outerVars

Next ==
    \/ FillCell
    \/ NextSpan
    \/ StartTrace
    \/ TraceL
    \/ TraceR
    \/ TracePair
    \/ TraceBifurcate
    \/ TraceReturn
    \/ Return

Spec == Init /\ [][Next]_vars

\* the call has ended, by a return or by an exception
Ended == pc \in {"done", "RangeError", "TypeError"}

----------------------------------------------------------------------------
(* One call of canPair, dnaToRna or generateMountainPlot *)

\* no call of predictRnaStructure is under way
NoCall ==
    /\ rna = <<>>
    /\ seq = <<>>
    /\ dp = <<>>
    /\ traceback = <<>>
    /\ l = 0
    /\ i = 0
    /\ pairs = <<>>
    /\ dotBracket = <<>>
    /\ stack = <<>>
    /\ pc = "idle"
    /\ result = <<>>

InitLib ==
    /\ NoCall
    /\ NoComponent
    /\ NoHome
    /\ out = <<>>
    /\ bases = <<>>
    /\ \/ fn = "canPair" /\ arg \in PairChars \X PairChars
       \/ /\ fn = "dnaToRna"
          /\ arg \in {<<d>> : d \in UNION {SeqsOfLen(DnaChars, k) : k \in 0..MaxDnaLen}}
       \/ /\ fn = "generateMountainPlot"
          /\ arg \in {<<d>> : d \in UNION {SeqsOfLen(BracketChars, k) : k \in 0..MaxPlotLen}}

CallCanPair ==
    /\ fn = "canPair"
    /\ out = <<>>
    /\ out' = <<canPair(arg[1], arg[2])>>
    /\ UNCHANGED <<predVars, fn, arg, bases, sequence, state, calls, pending, homeVars>>

CallDnaToRna ==
    /\ fn = "dnaToRna"
    /\ out = <<>>
    /\ out' = <<dnaToRna(arg[1])>>
    /\ UNCHANGED <<predVars, fn, arg, bases, sequence, state, calls, pending, homeVars>>

CallGenerateMountainPlot ==
    /\ fn = "generateMountainPlot"
    /\ out = <<>>
    /\ out' = <<generateMountainPlot(arg[1])>>
    /\ UNCHANGED <<predVars, fn, arg, bases, sequence, state, calls, pending, homeVars>>

NextLib ==
    \/ CallCanPair
    \/ CallDnaToRna
    \/ CallGenerateMountainPlot

SpecLib == InitLib /\ [][NextLib]_vars

----------------------------------------------------------------------------
(* One call of calculatePairingProbabilities or calculateRnaLayout.  A
   probability is held in ten-thousandths; the point of a base is held by its
   radius and its angle, the fraction turnNum / turnDen of a full turn. *)

Radii == {100, 120}

RECURSIVE ExpDecay(_)
\* Math.exp(-d / 30) in ten-thousandths, rounded at every step
ExpDecay(d) == IF d = 0 THEN 10000 ELSE (ExpDecay(d - 1) * 9672 + 5000) \div 10000

\* Math.min(0.7, 0.9 * Math.exp(-distance / 30)) in ten-thousandths
AltProbability(distance) == Min2(7000, (9 * ExpDecay(distance)) \div 10)

\* the entries pushed for the pairs of the structure
StructureEntries(ps) ==
    [x \in 1..Len(ps) |-> [i |-> ps[x][1], j |-> ps[x][2], probability |-> 9500]]

RECURSIVE AltLoop(_, _, _, _, _)
\* the two loops over alternative pairs from (p, q) on, with the list
\* probabilities as it stands
AltLoop(sq, ps, p, q, probabilities) ==
    IF ~(p < Len(sq) - 4) THEN probabilities
    ELSE IF ~(q < Len(sq)) THEN AltLoop(sq, ps, p + 1, p + 1 + 4, probabilities)
    ELSE LET inStructure == \E x \in 1..Len(ps) : ps[x][1] = p /\ ps[x][2] = q
             probability == AltProbability(q - p)
         IN  AltLoop(sq, ps, p, q + 1,
                     IF /\ canPair(CharAt(sq, p), CharAt(sq, q))
                        /\ ~inStructure
                        /\ probability > 1000
                     THEN Append(probabilities,
                                 [i |-> p, j |-> q, probability |-> probability])
                     ELSE probabilities)

\* what calculatePairingProbabilities returns once predictRnaStructure has
\* returned the pairs ps for the uppercased sequence sq
Probabilities(sq, ps) == AltLoop(sq, ps, 0, 4, StructureEntries(ps))

\* the bases array of calculateRnaLayout
LayoutBases(sq, radius) ==
    [x \in 1..Len(sq) |->
        [radius |-> radius, turnNum |-> x - 1, turnDen |-> Len(sq), base |-> sq[x]]]

InitCalls ==
    /\ \E s \in Inputs :
          /\ Enter(ToUpperCase(s))
          /\ \/ /\ fn = "calculatePairingProbabilities"
                /\ arg = <<s>>
                /\ bases = <<>>
             \/ \E radius \in Radii :
                   /\ fn = "calculateRnaLayout"
                   /\ arg = <<s, radius>>
                   /\ bases = LayoutBases(ToUpperCase(s), radius)
    /\ out = <<>>
    /\ NoComponent
    /\ NoHome

\* predictRnaStructure has returned to calculatePairingProbabilities, which
\* builds its list and returns it
ProbReturn ==
    /\ fn = "calculatePairingProbabilities"
    /\ pc = "done"
    /\ out = <<>>
    /\ out' = <<Probabilities(seq, result[1].pairs)>>
    /\ UNCHANGED <<predVars, fn, arg, bases, sequence, state, calls, pending, homeVars>>

\* calculatePairingProbabilities has returned to calculateRnaLayout, which
\* returns the bases with that list
LayoutReturn ==
    /\ fn = "calculateRnaLayout"
    /\ pc = "done"
    /\ out = <<>>
    /\ out' = <<[bases |-> bases, pairs |-> Probabilities(seq, result[1].pairs)]>>
    /\ UNCHANGED <<predVars, fn, arg, bases, sequence, state, calls, pending, homeVars>>

NextCalls ==
    \/ Next
    \/ ProbReturn
    \/ LayoutReturn

SpecCalls == InitCalls /\ [][NextCalls]_vars

\* the call of fn has returned or thrown
CallEnded == out # <<>> \/ pc \in {"RangeError", "TypeError"}

----------------------------------------------------------------------------
(* RnaStructureVisualization: the sequence prop, the state of the useState
   hooks that the effect writes, and the effect of lines 37-68.  calls lists
   the library calls and state-setter calls of the latest run of the effect,
   in order. *)

\* sequence.length < 10
MinLength == 10
\* sequence.substring(0, 200)
MaxBases == 200

\* the string of length k that repeats motif m
Repeat(m, k) == [p \in 1..k |-> m[((p - 1) % Len(m)) + 1]]

PropLengths ==
    {0, MinLength \div 2, MinLength - 1, MinLength, MinLength + 1, MaxBases}
        \cup (MaxBases + 1)..(MaxBases + MaxOver)

Motifs == {<<"A", "T", "g", "t", "C">>, <<"G", "C", "T">>, <<"c", "t", "A", "T">>}

\* the values the sequence prop takes
Props == {Repeat(m, k) : m \in Motifs, k \in PropLengths}

\* the useState initial values
InitialState ==
    [rnaSequence |-> <<>>, dotBracket |-> <<>>, pairs |-> <<>>, mfe |-> 0,
     visData |-> <<>>, mountainData |-> <<>>]

\* predictRnaStructure(s) ends by throwing: traceStructure(0, n - 1) is
\* entered with 0 < n - 1 and comes to a cell the fill left empty
Throws(s) == Len(s) >= 2

\* what predictRnaStructure(s) returns when it returns
Returned(s) == [dotBracket |-> Dots(Len(s)), pairs |-> <<>>, mfe |-> Mfe(<<>>)]

\* Throws and Returned say how the calls of Spec end
SummaryAgrees ==
    /\ Ended => ((pc = "RangeError") <=> Throws(rna))
    /\ pc = "done" => result = <<Returned(rna)>>

\* the whole sequence in place of its first characters
LimitedSeqWhole(s) == s

LimitedSeq(s) == Substring(s, 0, MaxBases)

InitComponent ==
    /\ NoCall
    /\ fn = "RnaStructureVisualization"
    /\ arg = <<>>
    /\ out = <<>>
    /\ bases = <<>>
    /\ sequence \in Props
    /\ state = InitialState
    /\ calls = <<>>
    /\ pending = TRUE
    /\ NoHome

\* the parent renders the component with another sequence
PropChange ==
    /\ ~pending
    /\ \E s \in Props :
          /\ s # sequence
          /\ sequence' = s
    /\ pending' = TRUE
    /\ UNCHANGED <<predVars, fn, arg, out, bases, state, calls, homeVars>>

\* the effect runs for the sequence of the latest render
RunEffect ==
    /\ pending
    /\ pending' = FALSE
    /\ IF sequence = <<>> \/ Len(sequence) < MinLength
       THEN /\ state' = [state EXCEPT !.rnaSequence = <<>>, !.dotBracket = <<>>,
                                      !.pairs = <<>>, !.visData = <<>>]
            /\ calls' = <<[fn |-> "setRnaSequence", arg |-> <<(<<>>)>>],
                          [fn |-> "setDotBracket", arg |-> <<(<<>>)>>],
                          [fn |-> "setPairs", arg |-> <<(<<>>)>>],
                          [fn |-> "setVisData", arg |-> <<(<<>>)>>]>>
       ELSE LET limitedSeq == LimitedSeq(sequence)
                r == dnaToRna(limitedSeq)
                predicted == Returned(r)
                layoutData == [bases |-> LayoutBases(ToUpperCase(r), 120),
                               pairs |-> Probabilities(ToUpperCase(r), <<>>)]
                mountain == generateMountainPlot(predicted.dotBracket)
                entry == <<[fn |-> "dnaToRna", arg |-> <<limitedSeq>>],
                           [fn |-> "setRnaSequence", arg |-> <<r>>],
                           [fn |-> "predictRnaStructure", arg |-> <<r>>]>>
            IN  IF Throws(r)
                THEN /\ state' = [state EXCEPT !.rnaSequence = r]
                     /\ calls' = entry
                ELSE /\ state' = [rnaSequence |-> r,
                                  dotBracket |-> predicted.dotBracket,
                                  pairs |-> predicted.pairs,
                                  mfe |-> predicted.mfe,
                                  visData |-> <<layoutData>>,
                                  mountainData |-> mountain]
                     /\ calls' = entry \o
                                 <<[fn |-> "setDotBracket", arg |-> <<predicted.dotBracket>>],
                                   [fn |-> "setPairs", arg |-> <<predicted.pairs>>],
                                   [fn |-> "setMfe", arg |-> <<predicted.mfe>>],
                                   [fn |-> "calculateRnaLayout", arg |-> <<r, 120>>],
                                   [fn |-> "setVisData", arg |-> <<(<<layoutData>>)>>],
                                   [fn |-> "generateMountainPlot",
                                    arg |-> <<predicted.dotBracket>>],
                                   [fn |-> "setMountainData", arg |-> <<mountain>>]>>
    /\ UNCHANGED <<predVars, fn, arg, out, bases, sequence, homeVars>>

NextComponent ==
    \/ PropChange
    \/ RunEffect

SpecComponent == InitComponent /\ [][NextComponent]_vars

----------------------------------------------------------------------------
(* Home, the main page: the input text, the analysed sequence, the error
   message and the auto-analyze effect with its timeout.  The 800 ms of the
   timeout are not counted: a pending timeout may fire at any moment.  A
   change of dnaSequence comes from an input or click event, and React runs
   the effects of such an update before it handles the next event or timer;
   effectDue marks the step between the two. *)

\* dnaSequence.length < 5
MinAutoLength == 5

\* validateDNA with * in place of + in the pattern
validateDNAOrEmpty(s) == \A p \in 1..Len(s) : UpperChar(s[p]) \in {"A", "T", "G", "C"}

\* validateDNA with the pattern not anchored at the end
validateDNAPrefix(s) == Len(s) > 0 /\ UpperChar(s[1]) \in {"A", "T", "G", "C"}

\* /^[ATGC]+$/i.test(sequence)
validateDNA(s) ==
    /\ Len(s) > 0
    /\ \A p \in 1..Len(s) : UpperChar(s[p]) \in {"A", "T", "G", "C"}

exampleDNA ==
    <<"A", "T", "G", "G", "C", "C", "A", "T", "T", "G", "T", "A", "A", "T",
      "G", "G", "G", "C", "C", "G", "C", "T", "G", "A", "A", "A", "G", "G",
      "G", "T", "G", "C", "C", "C", "G", "A", "T", "T", "A", "T", "G", "T",
      "C", "T", "G", "C", "A", "T", "C", "G", "T", "T", "A", "A", "A", "G",
      "T", "C", "G", "A", "T", "G", "T", "C", "G", "A", "T", "C", "G", "C",
      "C", "G", "G", "A", "A", "T", "G", "T", "C", "T", "T", "G", "G", "A",
      "T", "C", "A", "T", "G", "T", "A", "A", "G", "T", "C", "T", "A", "G">>

TypedAlphabet == {"a", "N"}
Typed == UNION {SeqsOfLen(TypedAlphabet, k) : k \in 0..MaxTypedLen}

\* what DNASequenceInput passes to onChange: the typed text uppercased, the
\* example of its own Load Example button, '' of its Clear button
OnChangeValues == {ToUpperCase(v) : v \in Typed} \cup {exampleDNA, <<>>}

RECURSIVE Remove(_, _)
\* the list ts without the first entry equal to h
Remove(ts, h) ==
    IF ts = <<>> THEN <<>>
    ELSE IF Head(ts) = h THEN Tail(ts)
    ELSE <<Head(ts)>> \o Remove(Tail(ts), h)

\* a cleanup that cancels nothing
clearTimeoutNothing(ts, h) == ts

\* clearTimeout(timer): the timeout stops pending; none if it has fired
clearTimeout(ts, h) == Remove(ts, h)

InitHome ==
    /\ NoCall
    /\ NoComponent
    /\ fn = "Home"
    /\ arg = <<>>
    /\ out = <<>>
    /\ bases = <<>>
    /\ dnaSequence = <<>>
    /\ analyzedSequence = <<>>
    /\ error = "null"
    /\ timers = <<>>
    /\ cleanup = <<>>
    /\ effectDue = TRUE

HomeFrame == UNCHANGED <<predVars, fn, arg, out, bases, sequence, state, calls, pending>>

handleSequenceChange ==
    /\ ~effectDue
    /\ \E newSequence \in OnChangeValues :
          /\ dnaSequence' = newSequence
          /\ effectDue' = (newSequence # dnaSequence)
    /\ error' = "null"
    /\ UNCHANGED <<analyzedSequence, timers, cleanup>>
    /\ HomeFrame

handleAnalyze ==
    /\ ~effectDue
    /\ IF dnaSequence = <<>>
       THEN /\ error' = "Please enter a DNA sequence"
            /\ UNCHANGED analyzedSequence
       ELSE IF ~validateDNA(dnaSequence)
       THEN /\ error' = "Invalid DNA sequence. Only A, T, G, C are allowed."
            /\ UNCHANGED analyzedSequence
       ELSE /\ analyzedSequence' = dnaSequence
            /\ error' = "null"
    /\ UNCHANGED <<dnaSequence, timers, cleanup, effectDue>>
    /\ HomeFrame

\* the Load Example button of the header
LoadExample ==
    /\ ~effectDue
    /\ dnaSequence' = exampleDNA
    /\ analyzedSequence' = exampleDNA
    /\ effectDue' = (exampleDNA # dnaSequence)
    /\ UNCHANGED <<error, timers, cleanup>>
    /\ HomeFrame

\* the cleanup of the previous run, then the effect for the new dnaSequence
AutoAnalyzeEffect ==
    /\ effectDue
    /\ effectDue' = FALSE
    /\ LET left == IF cleanup = <<>> THEN timers ELSE clearTimeout(timers, cleanup[1])
       IN  IF dnaSequence = <<>> \/ Len(dnaSequence) < MinAutoLength
           THEN /\ timers' = left
                /\ cleanup' = <<>>
           ELSE /\ timers' = Append(left, dnaSequence)
                /\ cleanup' = <<dnaSequence>>
    /\ UNCHANGED <<dnaSequence, analyzedSequence, error>>
    /\ HomeFrame

\* a pending timeout fires, with the dnaSequence its closure captured
TimerFires ==
    /\ ~effectDue
    /\ \E t \in 1..Len(timers) :
          /\ timers' = SubSeq(timers, 1, t - 1) \o SubSeq(timers, t + 1, Len(timers))
          /\ IF validateDNA(timers[t])
             THEN /\ analyzedSequence' = timers[t]
                  /\ error' = "null"
             ELSE UNCHANGED <<analyzedSequence, error>>
    /\ UNCHANGED <<dnaSequence, cleanup, effectDue>>
    /\ HomeFrame

NextHome ==
    \/ handleSequenceChange
    \/ handleAnalyze
    \/ LoadExample
    \/ AutoAnalyzeEffect
    \/ TimerFires

SpecHome == InitHome /\ [][NextHome]_vars

----------------------------------------------------------------------------
(* simulateDigestion of restriction-enzymes.ts *)

\* the table restrictionEnzymes: name, recognition sequence, cut position
restrictionEnzymes ==
    <<[name |-> "EcoRI", recognitionSequence |-> <<"G", "A", "A", "T", "T", "C">>, cutPosition |-> 1],
      [name |-> "BamHI", recognitionSequence |-> <<"G", "G", "A", "T", "C", "C">>, cutPosition |-> 1],
      [name |-> "HindIII", recognitionSequence |-> <<"A", "A", "G", "C", "T", "T">>, cutPosition |-> 1],
      [name |-> "NotI", recognitionSequence |-> <<"G", "C", "G", "G", "C", "C", "G", "C">>, cutPosition |-> 2],
      [name |-> "XhoI", recognitionSequence |-> <<"C", "T", "C", "G", "A", "G">>, cutPosition |-> 1],
      [name |-> "SmaI", recognitionSequence |-> <<"C", "C", "C", "G", "G", "G">>, cutPosition |-> 3],
      [name |-> "KpnI", recognitionSequence |-> <<"G", "G", "T", "A", "C", "C">>, cutPosition |-> 5],
      [name |-> "SalI", recognitionSequence |-> <<"G", "T", "C", "G", "A", "C">>, cutPosition |-> 1],
      [name |-> "PstI", recognitionSequence |-> <<"C", "T", "G", "C", "A", "G">>, cutPosition |-> 5],
      [name |-> "EcoRV", recognitionSequence |-> <<"G", "A", "T", "A", "T", "C">>, cutPosition |-> 3],
      [name |-> "NcoI", recognitionSequence |-> <<"C", "C", "A", "T", "G", "G">>, cutPosition |-> 1],
      [name |-> "SpeI", recognitionSequence |-> <<"A", "C", "T", "A", "G", "T">>, cutPosition |-> 1],
      [name |-> "BglII", recognitionSequence |-> <<"A", "G", "A", "T", "C", "T">>, cutPosition |-> 1],
      [name |-> "XbaI", recognitionSequence |-> <<"T", "C", "T", "A", "G", "A">>, cutPosition |-> 1],
      [name |-> "ApaI", recognitionSequence |-> <<"G", "G", "G", "C", "C", "C">>, cutPosition |-> 5],
      [name |-> "BsrGI", recognitionSequence |-> <<"T", "G", "T", "A", "C", "A">>, cutPosition |-> 1],
      [name |-> "MluI", recognitionSequence |-> <<"A", "C", "G", "C", "G", "T">>, cutPosition |-> 1],
      [name |-> "PvuII", recognitionSequence |-> <<"C", "A", "G", "C", "T", "G">>, cutPosition |-> 3],
      [name |-> "SacI", recognitionSequence |-> <<"G", "A", "G", "C", "T", "C">>, cutPosition |-> 5],
      [name |-> "SphI", recognitionSequence |-> <<"G", "C", "A", "T", "G", "C">>, cutPosition |-> 5]>>

\* s.indexOf(t, from) for 0 <= from: the least index at or after from where
\* t occurs in s, -1 when there is none
IndexOf(s, t, from) ==
    LET hits == {p \in from..(Len(s) - Len(t)) : SubSeq(s, p + 1, p + Len(t)) = t}
    IN  IF hits = {} THEN -1 ELSE CHOOSE p \in hits : \A q \in hits : p <= q

RECURSIVE SiteLoop(_, _, _, _)
\* the while loop over the occurrences of one enzyme's recognition sequence,
\* from the occurrence at pos on
SiteLoop(upperSeq, enzyme, pos, cutPositions) ==
    IF pos # -1
    THEN SiteLoop(upperSeq, enzyme,
                  IndexOf(upperSeq, ToUpperCase(enzyme.recognitionSequence), pos + 1),
                  Append(cutPositions, pos + enzyme.cutPosition))
    ELSE cutPositions

RECURSIVE EnzymeLoop(_, _, _, _)
\* the for loop over selectedEnzymes from the e-th on
EnzymeLoop(upperSeq, selectedEnzymes, e, cutPositions) ==
    IF e > Len(selectedEnzymes) THEN cutPositions
    ELSE EnzymeLoop(upperSeq, selectedEnzymes, e + 1,
                    SiteLoop(upperSeq, selectedEnzymes[e],
                             IndexOf(upperSeq,
                                     ToUpperCase(selectedEnzymes[e].recognitionSequence), 0),
                             cutPositions))

RECURSIVE SortAscending(_)
\* the numbers of set S in ascending order
SortAscending(S) ==
    IF S = {} THEN <<>>
    ELSE LET m == CHOOSE x \in S : \A y \in S : x <= y
         IN  <<m>> \o SortAscending(S \ {m})

\* the cut positions sorted but with duplicates kept
SortedKeepingDuplicates(cs) ==
    LET RECURSIVE Insert(_, _)
        Insert(sorted, x) ==
            IF sorted = <<>> THEN <<x>>
            ELSE IF x <= Head(sorted) THEN <<x>> \o sorted
            ELSE <<Head(sorted)>> \o Insert(Tail(sorted), x)
        RECURSIVE Sort(_, _)
        Sort(k, sorted) == IF k > Len(cs) THEN sorted ELSE Sort(k + 1, Insert(sorted, cs[k]))
    IN  Sort(1, <<>>)

\* [...new Set(cutPositions)].sort((a, b) => a - b)
UniqueSorted(cs) == SortAscending({cs[k] : k \in 1..Len(cs)})

RECURSIVE FragmentLoop(_, _, _, _, _)
\* the for loop over cutPositions from the c-th on, then the last fragment
FragmentLoop(upperSeq, cutPositions, c, lastCutPos, fragments) ==
    IF c <= Len(cutPositions)
    THEN FragmentLoop(upperSeq, cutPositions, c + 1, cutPositions[c],
                      Append(fragments, Substring(upperSeq, lastCutPos, cutPositions[c])))
    ELSE IF lastCutPos < Len(upperSeq)
    THEN Append(fragments, SubstringFrom(upperSeq, lastCutPos))
    ELSE fragments

simulateDigestion(s, selectedEnzymes) ==
    LET upperSeq == ToUpperCase(s)
        cutPositions == UniqueSorted(EnzymeLoop(upperSeq, selectedEnzymes, 1, <<>>))
    IN  [fragments |-> FragmentLoop(upperSeq, cutPositions, 1, 0, <<>>),
         cutPositions |-> cutPositions]

----------------------------------------------------------------------------
(* The open reading frames of ReadingFrameAnalysis *)

isStartCodon(codon) == codon = <<"A", "T", "G">>

isStopCodon(codon) ==
    \/ codon = <<"T", "A", "A">>
    \/ codon = <<"T", "A", "G">>
    \/ codon = <<"T", "G", "A">>

\* splitIntoCodons(s, 0).flat(): the codons of s, the last one padded with
\* '-' to three characters
FlatCodons(s) ==
    [c \in 1..((Len(s) + 2) \div 3) |->
        LET codon == SubSeq(s, 3 * (c - 1) + 1, Min2(3 * c, Len(s)))
        IN  codon \o [x \in 1..(3 - Len(codon)) |-> "-"]]

RECURSIVE CodonLoop(_, _, _, _, _, _)
\* frameCodons.forEach from codonIndex on, then the ORF still open at the end
CodonLoop(frameCodons, frameIndex, codonIndex, inORF, startPos, orfs) ==
    IF codonIndex < Len(frameCodons)
    THEN LET codon == frameCodons[codonIndex + 1]
             starts == ~inORF /\ isStartCodon(codon)
             in1 == inORF \/ starts
             start1 == IF starts THEN frameIndex + (codonIndex * 3) ELSE startPos
             ends == in1 /\ isStopCodon(codon)
             endPos == frameIndex + (codonIndex * 3) + 2
         IN  CodonLoop(frameCodons, frameIndex, codonIndex + 1,
                       in1 /\ ~ends, start1,
                       IF ends
                       THEN Append(orfs, [frameIndex |-> frameIndex, startPos |-> start1,
                                          endPos |-> endPos,
                                          length |-> endPos - start1 + 1])
                       ELSE orfs)
    ELSE IF inORF
    THEN LET endPos == frameIndex + (Len(frameCodons) * 3) - 1
         IN  Append(orfs, [frameIndex |-> frameIndex, startPos |-> startPos,
                           endPos |-> endPos, length |-> endPos - startPos + 1])
    ELSE orfs

RECURSIVE FrameLoop(_, _, _)
\* frames.forEach from frameIndex on
FrameLoop(s, frameIndex, orfs) ==
    IF frameIndex > 2 THEN orfs
    ELSE FrameLoop(s, frameIndex + 1,
                   CodonLoop(FlatCodons(SubSeq(s, frameIndex + 1, Len(s))),
                             frameIndex, 0, FALSE, 0, orfs))

\* the list openReadingFrames the component computes for its sequence prop;
\* none when it renders the placeholder
openReadingFrames(s) == IF s = <<>> \/ Len(s) < 3 THEN <<>> ELSE FrameLoop(s, 0, <<>>)

----------------------------------------------------------------------------
(* getReverseComplement of dna-utils.ts; export-utils.ts holds a copy *)

\* complement[base] || base
ComplementOf(base) ==
    CASE base = "A" -> "T"
      [] base = "T" -> "A"
      [] base = "G" -> "C"
      [] base = "C" -> "G"
      [] base = "a" -> "t"
      [] base = "t" -> "a"
      [] base = "g" -> "c"
      [] base = "c" -> "g"
      [] OTHER -> base

\* the complement without the reverse
getReverseComplementUnreversed(s) == [p \in 1..Len(s) |-> ComplementOf(s[p])]

\* sequence.split('').map(...).reverse().join('')
getReverseComplement(s) ==
    LET mapped == [p \in 1..Len(s) |-> ComplementOf(s[p])]
    IN  [p \in 1..Len(s) |-> mapped[Len(s) + 1 - p]]

----------------------------------------------------------------------------
(* One call of a function of restriction-enzymes.ts or dna-utils.ts *)

RECURSIVE Join(_)
\* fragments.join('')
Join(ss) == IF ss = <<>> THEN <<>> ELSE Head(ss) \o Join(Tail(ss))

\* recognition sites (two of them overlapping when put side by side), a
\* lowercase site and a character that is no base
DigestPieces ==
    {<<"G", "A", "G", "C", "T", "C">>, <<"T", "A", "G", "A">>,
     <<"C", "C", "C", "G", "G", "G">>, <<"g", "a", "a", "t", "t", "c">>, <<"N">>}

DigestInputs ==
    {Join(q) : q \in UNION {SeqsOfLen(DigestPieces, k) : k \in 0..MaxPieces}}

\* the selections of up to MaxEnzymes enzymes of the table, in table order
Selections ==
    LET picks == {q \in UNION {SeqsOfLen(1..Len(restrictionEnzymes), k) : k \in 0..MaxEnzymes} :
                     \A x \in 1..(Len(q) - 1) : q[x] < q[x + 1]}
    IN  {[x \in 1..Len(q) |-> restrictionEnzymes[q[x]]] : q \in picks}

OrfAlphabet == {"A", "T", "G"}
ComplementAlphabet == {"A", "T", "G", "C", "a", "t", "g", "c", "N"}

InitDna ==
    /\ NoCall
    /\ NoComponent
    /\ NoHome
    /\ out = <<>>
    /\ bases = <<>>
    /\ \/ /\ fn = "simulateDigestion"
          /\ arg \in DigestInputs \X Selections
       \/ /\ fn = "ReadingFrameAnalysis"
          /\ arg \in {<<s>> : s \in UNION {SeqsOfLen(OrfAlphabet, k) : k \in 0..MaxOrfLen}}
       \/ /\ fn = "getReverseComplement"
          /\ arg \in {<<s>> : s \in UNION {SeqsOfLen(ComplementAlphabet, k) : k \in 0..MaxRcLen}}

CallSimulateDigestion ==
    /\ fn = "simulateDigestion"
    /\ out = <<>>
    /\ out' = <<simulateDigestion(arg[1], arg[2])>>
    /\ UNCHANGED <<predVars, fn, arg, bases, sequence, state, calls, pending, homeVars>>

\* ReadingFrameAnalysis renders: its list of open reading frames
RenderReadingFrameAnalysis ==
    /\ fn = "ReadingFrameAnalysis"
    /\ out = <<>>
    /\ out' = <<openReadingFrames(arg[1])>>
    /\ UNCHANGED <<predVars, fn, arg, bases, sequence, state, calls, pending, homeVars>>

CallGetReverseComplement ==
    /\ fn = "getReverseComplement"
    /\ out = <<>>
    /\ out' = <<getReverseComplement(arg[1])>>
    /\ UNCHANGED <<predVars, fn, arg, bases, sequence, state, calls, pending, homeVars>>

NextDna ==
    \/ CallSimulateDigestion
    \/ RenderReadingFrameAnalysis
    \/ CallGetReverseComplement

SpecDna == InitDna /\ [][NextDna]_vars

----------------------------------------------------------------------------
(* What the claims speak of *)

\* the bases a and b, uppercased, are A-U, U-A, G-C or C-G
Complementary(a, b) ==
    <<UpperChar(a), UpperChar(b)>> \in
        {<<"A", "U">>, <<"U", "A">>, <<"G", "C">>, <<"C", "G">>}

\* the closure variables exist (the fill is over), and what the call returns,
\* once it has, is their value
Tracing == pc # "fill"
\* the state the fill ends in: dp and traceback are final, the traceback is
\* about to run
Filled == pc = "trace" /\ stack = <<Frame(0, n - 1)>>
ReturnsClosure ==
    result # <<>> => result[1].dotBracket = dotBracket /\ result[1].pairs = pairs

\* the number of positions 1..k of string d that hold character c
Count(d, c, k) == Cardinality({p \in 1..k : d[p] = c})

\* the dot-bracket string of length k that a pair list serializes to
Rebuild(ps, k) ==
    [p \in 1..k |->
        IF \E x \in 1..Len(ps) : ps[x][1] = p - 1 THEN "("
        ELSE IF \E x \in 1..Len(ps) : ps[x][2] = p - 1 THEN ")"
        ELSE "."]

SetMax(S) == CHOOSE m \in S : \A x \in S : x <= m

RECURSIVE MaxPairs(_, _)
\* the largest number of pairs of a non-crossing matching on positions p..q
\* of rna whose pairs are complementary and span more than 3: position p is
\* left unpaired, or paired with some m, which splits the rest in the
\* positions inside the pair and those after it
MaxPairs(p, q) ==
    IF q - p < 4 THEN 0
    ELSE SetMax({MaxPairs(p + 1, q)} \cup
                {1 + MaxPairs(p + 1, m - 1) + MaxPairs(m + 1, q) :
                    m \in {x \in (p + 4)..q :
                             Complementary(CharAt(rna, p), CharAt(rna, x))}})

\* the options of cell (p, q) in the order of the source, with their values
Options(p, q) ==
    <<[kind |-> "L", k |-> 0, v |-> dp[p + 1][q]],
      [kind |-> "R", k |-> 0, v |-> dp[p][q - 1]]>>
    \o (IF Complementary(CharAt(rna, p), CharAt(rna, q))
        THEN <<[kind |-> "P", k |-> 0, v |-> dp[p + 1][q - 1] + 1]>>
        ELSE <<>>)
    \o [x \in 1..(q - p - 1) |->
          [kind |-> "K", k |-> p + x, v |-> dp[p][p + x] + dp[p + x + 1][q]]]

\* the traceback entry tb records option o
Records(tb, o) ==
    IF o.kind = "K" THEN ParseInt(tb) = o.k ELSE tb = <<o.kind>>

\* the cells the fill visits
FilledCells == {c \in (0..(n - 1)) \X (0..(n - 1)) : c[2] - c[1] >= 4}

----------------------------------------------------------------------------
(* Claims *)

\* C1: for every input the call completes and returns a result; the
\* traceback reaches its base cases and the call never ends with an error.
C1_CompletesWithoutError ==
    /\ pc \notin {"RangeError", "TypeError"}
    /\ pc = "done" => result # <<>>

\* C2: every input of length 0..4 returns pairs = [], an all-'.' dotBracket
\* of the input's length and mfe = 0, without an error.
C2_ShortInputsEmptyStructure ==
    (Len(rna) <= 4 /\ Ended) =>
        result = <<[dotBracket |-> Dots(Len(rna)), pairs |-> <<>>, mfe |-> 0]>>

\* C3: "GGGAAAUCCC" returns dotBracket "(((....)))", exactly the pairs
\* (0,9), (1,8), (2,7), and mfe = -6.
C3_ExampleResult ==
    (rna = Example /\ Ended) =>
        /\ result # <<>>
        /\ result[1].dotBracket = <<"(", "(", "(", ".", ".", ".", ".", ")", ")", ")">>
        /\ {result[1].pairs[x] : x \in 1..Len(result[1].pairs)}
              = {<<0, 9>>, <<1, 8>>, <<2, 7>>}
        /\ Len(result[1].pairs) = 3
        /\ result[1].mfe = -6

\* C4: every pair (p, q) of the pairs list, at every point of the call and
\* in what it returns, has 0 <= p < q < n, q - p > 3 and complementary bases.
C4_PairsValid ==
    /\ ReturnsClosure
    /\ \A x \in 1..Len(pairs) :
          LET p == pairs[x][1]
              q == pairs[x][2]
          IN  /\ 0 <= p /\ p < q /\ q < Len(rna)
              /\ q - p > 3
              /\ Complementary(CharAt(rna, p), CharAt(rna, q))

\* the call has ended with a pair in the list whose upper base is lower case
C4_Witness ==
    /\ Ended
    /\ \E x \in 1..Len(pairs) : CharAt(rna, pairs[x][2]) = "c"

\* C5: the pairs list is a non-crossing matching: no index occurs in two
\* pairs and no two pairs (a, b), (c, d) have a < c < b < d.
C5_NonCrossingMatching ==
    /\ ReturnsClosure
    /\ \A x, y \in 1..Len(pairs) :
          x # y =>
             /\ {pairs[x][1], pairs[x][2]} \cap {pairs[y][1], pairs[y][2]} = {}
             /\ ~(/\ pairs[x][1] < pairs[y][1]
                  /\ pairs[y][1] < pairs[x][2]
                  /\ pairs[x][2] < pairs[y][2])

C5_Witness == Ended /\ Len(pairs) >= 2

\* C6: dotBracket has the length of the input, holds only '(', ')' and '.',
\* as many '(' as ')', and no prefix has more ')' than '('.
C6_DotBracketBalanced ==
    Tracing =>
        /\ ReturnsClosure
        /\ Len(dotBracket) = Len(rna)
        /\ \A p \in 1..Len(dotBracket) : dotBracket[p] \in {"(", ")", "."}
        /\ Count(dotBracket, "(", Len(dotBracket)) = Count(dotBracket, ")", Len(dotBracket))
        /\ \A k \in 0..Len(dotBracket) :
              Count(dotBracket, "(", k) - Count(dotBracket, ")", k) >= 0

C6_Witness == Ended /\ \E p \in 1..Len(dotBracket) : dotBracket[p] = ")"

\* C7: the string with '(' at the lower index of each pair, ')' at the upper
\* index and '.' elsewhere is exactly dotBracket.
C7_RoundTrip ==
    Tracing => ReturnsClosure /\ Rebuild(pairs, Len(rna)) = dotBracket

C7_Witness ==
    /\ Ended
    /\ Len(pairs) >= 1
    /\ pairs[1][1] > 0
    /\ Rebuild(pairs, Len(rna)) # Dots(Len(rna))

\* C8: after the fill every cell dp[p][q], p <= q, is the maximum number of
\* pairs of a non-crossing matching on p..q with complementary pairs that
\* span more than 3; it is 0 whenever q - p <= 3.
C8_DpIsMaximum ==
    Filled =>
        \A p, q \in 0..(n - 1) :
            p <= q =>
                /\ dp[p][q] = MaxPairs(p, q)
                /\ q - p <= 3 => dp[p][q] = 0

C8_Witness == Filled /\ \E p, q \in 0..(n - 1) : p <= q /\ dp[p][q] >= 3

C10_FirstMaximalOption ==
    Filled =>
        \A c \in FilledCells :
            LET opts == Options(c[1], c[2])
                best == dp[c[1]][c[2]]
            IN  /\ \A x \in 1..Len(opts) : opts[x].v <= best
                /\ \E x \in 1..Len(opts) :
                      /\ opts[x].v = best
                      /\ \A y \in 1..(x - 1) : opts[y].v < best
                      /\ Records(traceback[c[1]][c[2]], opts[x])

\* a cell that records unpair-j although the pair option reaches the same
\* value, and a cell that records a bifurcation
C10_Witness ==
    /\ Filled
    /\ \E c \in FilledCells :
          /\ traceback[c[1]][c[2]] = <<"R">>
          /\ \E x \in 1..Len(Options(c[1], c[2])) :
                /\ Options(c[1], c[2])[x].kind = "P"
                /\ Options(c[1], c[2])[x].v = dp[c[1]][c[2]]
    /\ \E c \in FilledCells : ParseInt(traceback[c[1]][c[2]]) # NaN

\* the positions (1-based) of s that hold a character outside A, U, G, C,
\* whatever its case
OtherPositions(s) ==
    {p \in 1..Len(s) : UpperChar(s[p]) \notin {"A", "U", "G", "C"}}

\* position p (1-based) is '.' in dotBracket and occurs in no pair
Unpaired(p) ==
    /\ dotBracket[p] = "."
    /\ \A x \in 1..Len(pairs) : pairs[x][1] # p - 1 /\ pairs[x][2] # p - 1

\* C11: an input holding characters outside {A, U, G, C} is accepted without
\* an error, and each position holding one is '.' in the returned dotBracket
\* and occurs in no returned pair.
C11_OtherCharactersAccepted ==
    (Ended /\ OtherPositions(rna) # {}) =>
        /\ pc = "done"
        /\ result # <<>>
        /\ ReturnsClosure
        /\ \A p \in OtherPositions(rna) : Unpaired(p)

\* C12: canPair returns a boolean for every two characters, true exactly
\* when the uppercased pair is (A,U), (U,A), (G,C) or (C,G); it is symmetric.
C12_CanPairExact ==
    (fn = "canPair" /\ out # <<>>) =>
        /\ out[1] \in BOOLEAN
        /\ out[1] = (<<UpperChar(arg[1]), UpperChar(arg[2])>> \in
                        {<<"A", "U">>, <<"U", "A">>, <<"G", "C">>, <<"C", "G">>})
        /\ out[1] = canPair(arg[2], arg[1])

C12_Witness == fn = "canPair" /\ out = <<TRUE>> /\ arg = <<"G", "c">>

\* C13: dnaToRna returns a string of the input's length that holds 'U' where
\* the input has 'T', 'u' where it has 't', and the input's character
\* everywhere else.
C13_DnaToRnaPositionwise ==
    (fn = "dnaToRna" /\ out # <<>>) =>
        /\ Len(out[1]) = Len(arg[1])
        /\ \A p \in 1..Len(arg[1]) :
              out[1][p] = (IF arg[1][p] = "T" THEN "U"
                           ELSE IF arg[1][p] = "t" THEN "u"
                           ELSE arg[1][p])

C13_Witness ==
    /\ fn = "dnaToRna"
    /\ arg = <<(<<"T", "t", "c", "U">>)>>
    /\ out = <<(<<"U", "u", "c", "U">>)>>

\* C14: for every string d over '(', ')', '.' generateMountainPlot returns
\* |d| points, point p with x = p and y = the number of '(' minus the number
\* of ')' in d[0..p]; the last height is the bracket balance of d.
C14_MountainIsRunningBalance ==
    (fn = "generateMountainPlot" /\ out # <<>>) =>
        LET d == arg[1]
            plot == out[1]
        IN  /\ Len(plot) = Len(d)
            /\ \A p \in 1..Len(d) :
                  /\ plot[p].x = p - 1
                  /\ plot[p].y = Count(d, "(", p) - Count(d, ")", p)
            /\ Len(d) > 0 =>
                  plot[Len(d)].y = Count(d, "(", Len(d)) - Count(d, ")", Len(d))
            /\ Len(d) > 0 =>
                  plot[1].y = (IF d[1] = "(" THEN 1 ELSE IF d[1] = ")" THEN -1 ELSE 0)

\* an unbalanced argument whose profile goes below 0 and ends above it
C14_Witness ==
    /\ fn = "generateMountainPlot"
    /\ out # <<>>
    /\ arg = <<(<<")", "(", "(", ".">>)>>
    /\ out[1][1].y = -1
    /\ out[1][4].y = 1

\* C15: the mountain profile of the predicted structure,
\* generateMountainPlot applied to the call's dotBracket, has a height >= 0
\* at every position and the height 0 at the last position.
C15_MountainNonNegative ==
    Tracing =>
        LET plot == generateMountainPlot(dotBracket)
        IN  /\ ReturnsClosure
            /\ \A p \in 1..Len(plot) : plot[p].y >= 0
            /\ Len(plot) > 0 => plot[Len(plot)].y = 0

\* the profile of the example's structure climbs to 3 and comes back to 0
C15_Witness ==
    /\ Ended
    /\ rna = Example
    /\ generateMountainPlot(dotBracket)[3].y = 3
    /\ generateMountainPlot(dotBracket)[LongLen].y = 0

\* the entries of list es whose index pair is (p, q)
EntriesAt(es, p, q) == {x \in 1..Len(es) : es[x].i = p /\ es[x].j = q}

\* C16: calculatePairingProbabilities(s) lists every pair of
\* predictRnaStructure(s).pairs exactly once, with probability 0.95, and no
\* index pair appears in its output more than once.
C16_StructurePairsListedOnce ==
    (fn = "calculatePairingProbabilities" /\ CallEnded) =>
        /\ out # <<>>
        /\ pc = "done"
        /\ \A x \in 1..Len(pairs) :
              /\ Cardinality(EntriesAt(out[1], pairs[x][1], pairs[x][2])) = 1
              /\ \A e \in EntriesAt(out[1], pairs[x][1], pairs[x][2]) :
                    out[1][e].probability = 9500
        /\ \A e \in 1..Len(out[1]) :
              Cardinality(EntriesAt(out[1], out[1][e].i, out[1][e].j)) = 1

\* the index pairs the alternative entries are claimed to be
AltPairsClaimed(sq, ps) ==
    {pq \in (0..(Len(sq) - 1)) \X (0..(Len(sq) - 1)) :
        /\ pq[2] - pq[1] > 3
        /\ Complementary(CharAt(sq, pq[1]), CharAt(sq, pq[2]))
        /\ \A x \in 1..Len(ps) : ps[x] # pq
        /\ AltProbability(pq[2] - pq[1]) > 1000}

\* C17: the entries of calculatePairingProbabilities(s) that are not
\* structure pairs are exactly the complementary index pairs (i, j) with
\* j - i > 3 that are not structure pairs and whose value
\* min(0.7, 0.9 * exp(-(j - i) / 30)) exceeds 0.1; each carries that value,
\* and every probability of the output lies in (0, 1].
C17_AlternativePairsExact ==
    (fn = "calculatePairingProbabilities" /\ CallEnded) =>
        /\ out # <<>>
        /\ LET alt == {e \in 1..Len(out[1]) :
                          \A x \in 1..Len(pairs) :
                              pairs[x] # <<out[1][e].i, out[1][e].j>>}
           IN  /\ {<<out[1][e].i, out[1][e].j>> : e \in alt} =
                      AltPairsClaimed(ToUpperCase(arg[1]), pairs)
               /\ \A e \in alt :
                      out[1][e].probability = AltProbability(out[1][e].j - out[1][e].i)
        /\ \A e \in 1..Len(out[1]) :
              out[1][e].probability > 0 /\ out[1][e].probability <= 10000

\* C18: calculateRnaLayout(s, r) returns |s| base points in index order,
\* point p carrying the uppercased character of s at index p and lying at
\* angle 2 * pi * p / |s| on the circle of radius r; none for the empty s.
C18_LayoutReturnsCircle ==
    (fn = "calculateRnaLayout" /\ CallEnded) =>
        /\ out # <<>>
        /\ Len(out[1].bases) = Len(arg[1])
        /\ \A x \in 1..Len(arg[1]) :
              /\ out[1].bases[x].base = UpperChar(arg[1][x])
              /\ out[1].bases[x].radius = arg[2]
              /\ out[1].bases[x].turnNum = x - 1
              /\ out[1].bases[x].turnDen = Len(arg[1])

\* the RNA form of the first MaxBases characters of s
RnaOfFirst(s) ==
    [p \in 1..Min2(Len(s), MaxBases) |->
        IF s[p] = "T" THEN "U" ELSE IF s[p] = "t" THEN "u" ELSE s[p]]

\* the calls of the predictor and of the layout in the latest run
CubicCalls == {c \in 1..Len(calls) :
                  calls[c].fn \in {"predictRnaStructure", "calculateRnaLayout"}}

\* C19: in RnaStructureVisualization predictRnaStructure and
\* calculateRnaLayout are only invoked on the RNA form of the first 200
\* characters of the sequence, and not at all when the sequence is empty or
\* shorter than 10.
C19_CallerBoundsInput ==
    /\ \A c \in CubicCalls : Len(calls[c].arg[1]) <= MaxBases
    /\ ~pending =>
          /\ \A c \in CubicCalls : calls[c].arg[1] = RnaOfFirst(sequence)
          /\ Len(sequence) < MinLength => CubicCalls = {}

\* the effect has run for a sequence longer than 200 and called the
\* predictor on 200 characters, with U and u in place of T and t
C19_Witness ==
    /\ ~pending
    /\ Len(sequence) > MaxBases
    /\ \E c \in CubicCalls :
          /\ calls[c].fn = "predictRnaStructure"
          /\ Len(calls[c].arg[1]) = MaxBases
          /\ calls[c].arg[1][2] = "U"
          /\ calls[c].arg[1][4] = "u"

\* the cell read holds a choice the fill records for the cell (p, q)
RecordedChoice(tb, p, q) ==
    \/ tb \in {<<"L">>, <<"R">>, <<"P">>}
    \/ /\ tb \notin {Undefined, TypeErrorMark}
       /\ ParseInt(tb) # NaN
       /\ p < ParseInt(tb)
       /\ ParseInt(tb) < q

\* C21: every cell (i, j) with i < j that traceStructure visits holds a
\* choice recorded by the fill ('L', 'R', 'P' or a split index k with
\* i < k < j); the traceback never reads a cell the fill left empty and never
\* recurses with an index that is not an integer in 0..n-1.
C21_TraceReadsRecordedCells ==
    \A f \in 1..Len(stack) :
        /\ f > 1 => stack[f].i \in 0..(n - 1) /\ stack[f].j \in 0..(n - 1)
        /\ ~JsGe(stack[f].i, stack[f].j) =>
              RecordedChoice(ReadTb(stack[f].i, stack[f].j), stack[f].i, stack[f].j)

\* C22: the number of pairs predictRnaStructure returns equals dp[0][n-1]
\* (0 when n = 0): the traceback realises the optimum of the fill.
C22_TracebackRealisesOptimum ==
    Ended =>
        /\ pc = "done"
        /\ result # <<>>
        /\ Len(result[1].pairs) = (IF n = 0 THEN 0 ELSE dp[0][n - 1])

\* C23 as stated: for every string over '(', ')', '.' passed to
\* generateMountainPlot, unbalanced ones included, every height is >= 0, the
\* first height is 0 or 1, and consecutive heights differ by +1, -1 or 0.
C23_HeightsNeverNegative ==
    (fn = "generateMountainPlot" /\ out # <<>>) =>
        LET plot == out[1]
        IN  /\ \A p \in 1..Len(plot) : plot[p].y >= 0
            /\ Len(plot) > 0 => plot[1].y \in {0, 1}
            /\ \A p \in 1..(Len(plot) - 1) : plot[p + 1].y - plot[p].y \in {-1, 0, 1}

\* C23 amended: the first height is -1, 0 or 1, consecutive heights differ by
\* +1, -1 or 0, and the height at p is negative exactly when d[0..p] holds
\* more ')' than '('; every height is >= 0 only for strings none of whose
\* prefixes holds more ')' than '('.
C23_HeightsStepFromZero ==
    (fn = "generateMountainPlot" /\ out # <<>>) =>
        LET d == arg[1]
            plot == out[1]
        IN  /\ Len(plot) > 0 => plot[1].y \in {-1, 0, 1}
            /\ \A p \in 1..(Len(plot) - 1) : plot[p + 1].y - plot[p].y \in {-1, 0, 1}
            /\ \A p \in 1..Len(plot) :
                  (plot[p].y < 0) <=> (Count(d, ")", p) > Count(d, "(", p))

\* an argument that closes before it opens: the heights go to -2
C23_Witness ==
    /\ fn = "generateMountainPlot"
    /\ out # <<>>
    /\ arg = <<(<<")", ")", "(", ".", "(">>)>>
    /\ out[1][1].y = -1
    /\ out[1][2].y = -2
    /\ out[1][5].y = 0

\* C24: after the effect has run for a sequence of length >= 10, the stored
\* rnaSequence, dotBracket, pairs, visData and mountainData derive from the
\* same sequence: dotBracket, visData.bases and mountainData have the length
\* of rnaSequence and every stored pair index is below it, also when the
\* prediction throws inside the try block.
C24_StoredStateOfOneSequence ==
    (~pending /\ Len(sequence) >= MinLength) =>
        /\ state.rnaSequence = RnaOfFirst(sequence)
        /\ Len(state.dotBracket) = Len(state.rnaSequence)
        /\ state.visData # <<>>
        /\ Len(state.visData[1].bases) = Len(state.rnaSequence)
        /\ Len(state.mountainData) = Len(state.rnaSequence)
        /\ \A x \in 1..Len(state.pairs) :
              /\ state.pairs[x][1] < Len(state.rnaSequence)
              /\ state.pairs[x][2] < Len(state.rnaSequence)

\* the setter calls that clear the six hooks of the structure
ClearingCalls ==
    {[fn |-> "setRnaSequence", arg |-> <<InitialState.rnaSequence>>],
     [fn |-> "setDotBracket", arg |-> <<InitialState.dotBracket>>],
     [fn |-> "setPairs", arg |-> <<InitialState.pairs>>],
     [fn |-> "setVisData", arg |-> <<InitialState.visData>>],
     [fn |-> "setMfe", arg |-> <<InitialState.mfe>>],
     [fn |-> "setMountainData", arg |-> <<InitialState.mountainData>>]}

\* C25: when the sequence prop becomes empty or shorter than 10, the effect
\* clears rnaSequence, dotBracket, pairs, visData and also mfe and
\* mountainData, so that no value of an earlier sequence stays in the state.
C25_ResetClearsAllStructureState ==
    (~pending /\ Len(sequence) < MinLength) =>
        /\ state = InitialState
        /\ \A c \in ClearingCalls : \E x \in 1..Len(calls) : calls[x] = c

\* non-empty and only A, T, G, C in either case
IsDna(s) ==
    /\ s # <<>>
    /\ \A p \in 1..Len(s) : s[p] \in {"A", "T", "G", "C", "a", "t", "g", "c"}

\* C26: analyzedSequence is at all times empty or a string that passes
\* validateDNA, across typing, Analyze clicks, Load Example and the timer; an
\* Analyze click on an empty or invalid input sets an error message and
\* leaves analyzedSequence unchanged.
C26_AnalyzedIsValidDna ==
    /\ [](analyzedSequence = <<>> \/ IsDna(analyzedSequence))
    /\ [][(handleAnalyze /\ ~IsDna(dnaSequence)) =>
              (error' # "null" /\ analyzedSequence' = analyzedSequence)]_vars

\* an Analyze click on an invalid input has left an earlier analysis in place
C26_Witness ==
    /\ IsDna(analyzedSequence)
    /\ dnaSequence # <<>>
    /\ ~IsDna(dnaSequence)
    /\ error = "Invalid DNA sequence. Only A, T, G, C are allowed."

\* C27: every change of dnaSequence cancels the pending timer before a new
\* one is armed, so at most one timer is pending; the timer that fires
\* writes the current dnaSequence to analyzedSequence; no timer is armed for
\* an input shorter than 5 characters.
C27_TimerNeverStale ==
    /\ [](/\ Len(timers) <= 1
          /\ \A t \in 1..Len(timers) :
                /\ Len(timers[t]) >= MinAutoLength
                /\ ~effectDue => timers[t] = dnaSequence)
    /\ [][TimerFires =>
              /\ timers = <<dnaSequence>>
              /\ IsDna(dnaSequence) => analyzedSequence' = dnaSequence]_vars
    /\ [][AutoAnalyzeEffect =>
              /\ Len(timers') <= 1
              /\ Len(dnaSequence) < MinAutoLength => timers' = <<>>]_vars

\* the timer armed for the current input has fired and committed it, after
\* an earlier input had its own timer
C27_Witness ==
    /\ ~effectDue
    /\ cleanup = <<dnaSequence>>
    /\ timers = <<>>
    /\ analyzedSequence = dnaSequence
    /\ dnaSequence # exampleDNA
    /\ Len(dnaSequence) >= MinAutoLength

\* what C28 says of a digestion of a sequence s that returned r
DigestionPartitions(s, r) ==
    /\ \A c \in 1..(Len(r.cutPositions) - 1) : r.cutPositions[c] < r.cutPositions[c + 1]
    /\ \A c \in 1..Len(r.cutPositions) :
          0 < r.cutPositions[c] /\ r.cutPositions[c] < Len(s)
    /\ Len(r.fragments) = Len(r.cutPositions) + 1
    /\ \A f \in 1..Len(r.fragments) : r.fragments[f] # <<>>
    /\ Join(r.fragments) = ToUpperCase(s)

\* C28 as stated: for any sequence and any selection of enzymes of the
\* table, simulateDigestion returns strictly increasing cutPositions, each
\* strictly between 0 and the sequence length, and fragments with
\* fragments.length = cutPositions.length + 1, none empty, that joined in
\* order equal the uppercased sequence.
C28_DigestionPartitionsAnySequence ==
    (fn = "simulateDigestion" /\ out # <<>>) => DigestionPartitions(arg[1], out[1])

\* C28 amended: that holds for every non-empty sequence; for the empty
\* sequence simulateDigestion returns no fragment and no cut position.
C28_DigestionPartitionsNonEmpty ==
    (fn = "simulateDigestion" /\ out # <<>>) =>
        IF arg[1] = <<>>
        THEN out[1] = [fragments |-> <<>>, cutPositions |-> <<>>]
        ELSE DigestionPartitions(arg[1], out[1])

\* XbaI and SacI cut GAGCTCTAGA at the same position 5
C28_Witness ==
    /\ fn = "simulateDigestion"
    /\ arg[1] = <<"G", "A", "G", "C", "T", "C", "T", "A", "G", "A">>
    /\ Len(arg[2]) = 2
    /\ arg[2][1].name = "XbaI"
    /\ arg[2][2].name = "SacI"
    /\ out = <<[fragments |-> <<(<<"G", "A", "G", "C", "T">>),
                                (<<"C", "T", "A", "G", "A">>)>>,
               cutPositions |-> <<5>>]>>

\* the first index at or after p, in steps of 3, where a stop codon of s
\* begins; Len(s) when there is none
RECURSIVE FirstStopFrom(_, _)
FirstStopFrom(s, p) ==
    IF p + 3 > Len(s) THEN Len(s)
    ELSE IF isStopCodon(SubSeq(s, p + 1, p + 3)) THEN p
    ELSE FirstStopFrom(s, p + 3)

\* C29: every open reading frame reported for a sequence of length n has
\* 0 <= startPos < endPos <= n - 1, ATG at startPos, startPos in frame
\* frameIndex, a length endPos - startPos + 1 that is a multiple of 3, and
\* ends at the first in-frame stop codon after its start or, without one, at
\* the end of the sequence; the ORFs of one frame do not overlap.
C29_OrfsWithinSequence ==
    (fn = "ReadingFrameAnalysis" /\ out # <<>>) =>
        LET s == arg[1]
            orfs == out[1]
        IN  /\ \A o \in 1..Len(orfs) :
                  /\ 0 <= orfs[o].startPos
                  /\ orfs[o].startPos < orfs[o].endPos
                  /\ orfs[o].endPos <= Len(s) - 1
                  /\ isStartCodon(SubSeq(s, orfs[o].startPos + 1, orfs[o].startPos + 3))
                  /\ orfs[o].startPos % 3 = orfs[o].frameIndex
                  /\ orfs[o].length = orfs[o].endPos - orfs[o].startPos + 1
                  /\ orfs[o].length % 3 = 0
                  /\ LET stop == FirstStopFrom(s, orfs[o].startPos + 3)
                     IN  orfs[o].endPos = (IF stop < Len(s) THEN stop + 2 ELSE Len(s) - 1)
            /\ \A o, q \in 1..Len(orfs) :
                  (o # q /\ orfs[o].frameIndex = orfs[q].frameIndex) =>
                      (orfs[o].endPos < orfs[q].startPos \/ orfs[q].endPos < orfs[o].startPos)

\* the complement the claim names: A <-> T, G <-> C, case kept
ClaimedComplement ==
    [A |-> "T", T |-> "A", G |-> "C", C |-> "G", a |-> "t", t |-> "a", g |-> "c", c |-> "g"]

\* C30: getReverseComplement keeps the length, puts at position p the
\* complement of the character at position n - 1 - p (any other character
\* unchanged), and applied twice gives the string back.
C30_ReverseComplementInvolution ==
    (fn = "getReverseComplement" /\ out # <<>>) =>
        LET s == arg[1]
            r == out[1]
        IN  /\ Len(r) = Len(s)
            /\ \A p \in 0..(Len(s) - 1) :
                  CharAt(r, p) = (IF CharAt(s, Len(s) - 1 - p) \in DOMAIN ClaimedComplement
                                  THEN ClaimedComplement[CharAt(s, Len(s) - 1 - p)]
                                  ELSE CharAt(s, Len(s) - 1 - p))
            /\ getReverseComplement(r) = s

C30_Witness ==
    /\ fn = "getReverseComplement"
    /\ arg = <<(<<"A", "c", "N">>)>>
    /\ out = <<(<<"N", "g", "T">>)>>

====
